---- MODULE Spec2Model ----
(***************************************************************************)
(* A model of dashboard/dashboard.py: the CSV loader, the data preparer,   *)
(* the date-range filter of main and the group-by summaries behind the     *)
(* charts.  Strings of the CSV are TLA+ strings ("" is an empty cell, which*)
(* pandas reads as NaN); a timestamp text "Y-M-D H:00:00" is the tuple     *)
(* <<Y, M, D, H>>; a parsed Timestamp is, as in pandas, an integer count   *)
(* since an epoch (here hours since 2017-01-01 00:00).                      *)
(***************************************************************************)
EXTENDS Integers, Sequences, FiniteSets, TLC

VARIABLES
    pc,             \* position of the run
    file,           \* what is on disk at csv_file_path
    main_data,      \* the DataFrame main_data of main
    messages,       \* st.error / st.warning messages shown so far
    start_date,     \* dates returned by st.date_input
    end_date,
    filtered_data,  \* main_data restricted to [start_date, end_date]
    summary,        \* the summary tables computed so far, by chart
    once            \* SpecPrepare: the DataFrame after the first prepare_data

vars == <<pc, file, main_data, messages, start_date, end_date, filtered_data,
          summary, once>>

----------------------------------------------------------------------------
\* Bounds of the model.

\* Longest dataset of the main pipeline and of the preparer.
MaxRows == 3
\* Longest dataset handed to the aggregation functions.
MaxAggRows == 3
\* Largest n tried for get_top_products besides the default.
MaxN == 2

----------------------------------------------------------------------------
\* Cells.

\* A missing numeric cell (float NaN): purchase_month of a NaT row, an
\* empty order_item_id cell.
NaN == 0

\* pandas' NaT, the missing Timestamp; every comparison with it is False.
NaT == -1

\* isnull() of a numeric cell, of a string cell, of a Timestamp.
IsNaN(x) == x = NaN
IsNullStr(s) == s = ""
IsNaT(t) == t = NaT

\* The column names of the CSV, in file order.
Columns == {"order_item_id", "product_id", "product_category_name",
            "seller_state", "order_purchase_timestamp", "review_score"}

\* Empty DataFrame: pd.DataFrame().
EmptyDataFrame == [columns |-> {}, dtype |-> "object", rows |-> <<>>]

----------------------------------------------------------------------------
\* Calendar: the part of the proleptic Gregorian calendar the timestamps of
\* the model live in (2017 and 2018, neither a leap year).

DaysBefore == <<0, 31, 59, 90, 120, 151, 181, 212, 243, 273, 304, 334, 365>>

DaysIn(m) == DaysBefore[m + 1] - DaysBefore[m]

\* Is the text <<Y, M, D, H>> a date-time to_datetime can parse?
Parses(text) ==
    /\ Len(text) = 4
    /\ text[1] \in 2017..2018
    /\ text[2] \in 1..12
    /\ text[3] \in 1..DaysIn(text[2])
    /\ text[4] \in 0..23

\* The Timestamp of a parseable text: hours since 2017-01-01 00:00.
ParseTimestamp(text) ==
    (((text[1] - 2017) * 365 + DaysBefore[text[2]] + (text[3] - 1)) * 24) + text[4]

\* pd.to_datetime(cell, errors="coerce") of one text cell: unparseable text
\* and empty cells become NaT.
ToDatetimeCell(text) ==
    IF Parses(text) THEN ParseTimestamp(text) ELSE NaT

\* Timestamp.date(): the calendar day (days since 2017-01-01); NaT.date()
\* is NaT.
DateOf(ts) == IF IsNaT(ts) THEN NaT ELSE ts \div 24

\* pd.to_datetime(date): midnight of that day.
ToDatetimeDate(d) == IF IsNaT(d) THEN NaT ELSE d * 24

\* MonthOf with the month boundaries one day late: the first of a month is
\* still counted in the month before.
MonthOfLateBoundary(ts) ==
    IF IsNaT(ts) THEN NaN
    ELSE LET doy == DateOf(ts) % 365
         IN  CHOOSE m \in 1..12 : DaysBefore[m] < doy /\ doy <= DaysBefore[m + 1]

\* Series.dt.month of one Timestamp: 1..12, NaN for NaT.
MonthOf(ts) ==
    IF IsNaT(ts) THEN NaN
    ELSE LET doy == DateOf(ts) % 365
         IN  CHOOSE m \in 1..12 : DaysBefore[m] <= doy /\ doy < DaysBefore[m + 1]

----------------------------------------------------------------------------
\* DataFrame helpers.

\* df[col] = values (row-wise): assign or add a column.
SetCell(row, col, v) == (col :> v) @@ row

\* df[col] = values, values a Series as long as df.
WithColumn(df, col, values) ==
    [df EXCEPT !.columns = @ \cup {col},
               !.rows = [i \in 1..Len(df.rows) |-> SetCell(df.rows[i], col, values[i])]]

\* ToDatetime that parses a column again when it already holds Timestamps:
\* as no Timestamp is a date text, each is coerced to NaT.
ToDatetimeReparsing(df) ==
    [WithColumn(df, "order_purchase_timestamp",
                [i \in 1..Len(df.rows) |->
                    IF df.dtype = "datetime64"
                    THEN NaT
                    ELSE ToDatetimeCell(df.rows[i]["order_purchase_timestamp"])])
     EXCEPT !.dtype = "datetime64"]

\* pd.to_datetime(df[col], errors="coerce"): a datetime64 column is returned
\* as it is, an object column is parsed cell by cell.
ToDatetime(df) ==
    IF df.dtype = "datetime64"
    THEN df
    ELSE [WithColumn(df, "order_purchase_timestamp",
                     [i \in 1..Len(df.rows) |->
                         ToDatetimeCell(df.rows[i]["order_purchase_timestamp"])])
          EXCEPT !.dtype = "datetime64"]

HasTimestampColumn(df) == "order_purchase_timestamp" \in df.columns

\* df[col].isnull().any() for the Timestamp column.
AnyNaT(df) ==
    \E i \in 1..Len(df.rows) : IsNaT(df.rows[i]["order_purchase_timestamp"])

\* prepare_data(df): the returned DataFrame.
PrepareDataFrame(df) ==
    IF "order_purchase_timestamp" \in df.columns
    THEN LET parsed == ToDatetime(df)
         IN  WithColumn(parsed, "purchase_month",
                        [i \in 1..Len(parsed.rows) |->
                            MonthOf(parsed.rows[i]["order_purchase_timestamp"])])
    ELSE df

\* prepare_data(df): the messages it shows.
PrepareMessages(df) ==
    IF "order_purchase_timestamp" \in df.columns
    THEN IF AnyNaT(ToDatetime(df))
         THEN <<[level |-> "warning", text |-> "invalid timestamp"]>>
         ELSE <<>>
    ELSE <<[level |-> "error", text |-> "column not found"]>>

----------------------------------------------------------------------------
\* The CSV files of the model.

\* One line of the CSV.
Row(text, item, product, category, state) ==
    [order_item_id |-> item, product_id |-> product,
     product_category_name |-> category, seller_state |-> state,
     order_purchase_timestamp |-> text, review_score |-> 5]

\* What pd.read_csv returns for a readable file with these lines.
ReadCsv(columns, lines) ==
    [columns |-> columns, dtype |-> "object",
     rows |-> [i \in 1..Len(lines) |-> [c \in columns |-> lines[i][c]]]]

\* Timestamp cells: one time on 2018-01-31, midnight and a later time on
\* 2018-02-01, the text "2018-13-45 00:00:00" that is no date, and the empty
\* cell.
TimestampTexts ==
    {<<2018, 1, 31, 13>>, <<2018, 2, 1, 0>>, <<2018, 2, 1, 8>>,
     <<2018, 13, 45, 0>>, <<>>}

\* Lines that differ in their timestamp: January sales are SP's, the others
\* RJ's.
TimestampLines ==
    {Row(t, 1, IF Len(t) = 4 /\ t[4] = 0 THEN "p01" ELSE "p02", "c1",
         IF Len(t) = 4 /\ t[2] = 1 THEN "SP" ELSE "RJ") : t \in TimestampTexts}

SeqsUpTo(S, n) == UNION {[1..k -> S] : k \in 0..n}

\* The files main may find at csv_file_path: none, one that does not parse,
\* one that cannot be read, and readable ones with or without the timestamp
\* column.
TimestampFiles ==
    {[status |-> s, data |-> EmptyDataFrame] : s \in {"missing", "malformed", "unreadable"}}
    \cup {[status |-> "ok", data |-> ReadCsv(cols, lines)] :
            cols \in {Columns, Columns \ {"order_purchase_timestamp"}},
            lines \in SeqsUpTo(TimestampLines, MaxRows)}

----------------------------------------------------------------------------
\* load_data and prepare_data.

\* load_data(file_path): the DataFrame, or an empty one after st.error.
LoadedDataFrame(f) == IF f.status = "ok" THEN f.data ELSE EmptyDataFrame

LoadMessages(f) ==
    CASE f.status = "ok" -> <<>>
      [] f.status = "missing" -> <<[level |-> "error", text |-> "file not found"]>>
      [] f.status = "malformed" -> <<[level |-> "error", text |-> "parsing the file"]>>
      [] OTHER -> <<[level |-> "error", text |-> "an error occurred"]>>

Unused ==
    /\ start_date = NaT /\ end_date = NaT
    /\ filtered_data = EmptyDataFrame
    /\ summary = <<>>

----------------------------------------------------------------------------
\* Group-by, as pandas computes it.

\* The columns that hold strings; the others hold numbers or Timestamps.
StringColumns == {"product_id", "product_category_name", "seller_state"}

\* The strings of the model in Python's string order, which groupby sorts
\* its keys by.
Lexicon == <<"RJ", "SP", "c1", "c2", "p01", "p02", "p03", "p04", "p05", "p06",
             "p07", "p08", "p09", "p10">>

StrRank(str) == CHOOSE i \in 1..Len(Lexicon) : Lexicon[i] = str

\* isnull() of a cell of column col.
IsNull(col, v) ==
    IF col \in StringColumns THEN IsNullStr(v)
    ELSE IF col = "order_purchase_timestamp" THEN IsNaT(v)
    ELSE IsNaN(v)

\* a < b for two cells of column col.
CellLess(col, a, b) ==
    IF col \in StringColumns THEN StrRank(a) < StrRank(b) ELSE a < b

\* The group key of a row: its cells in the columns `by`.
KeyOf(row, by) == [j \in 1..Len(by) |-> row[by[j]]]

HasNullKey(row, by) == \E j \in 1..Len(by) : IsNull(by[j], row[by[j]])

\* Lexicographic order of group keys.
KeyLess(by, k1, k2) ==
    \E j \in 1..Len(by) :
        /\ \A i \in 1..(j - 1) : k1[i] = k2[i]
        /\ CellLess(by[j], k1[j], k2[j])

\* The groups of df.groupby(by): a row with a null key cell is in no group
\* (dropna=True, the default).
GroupKeys(rows, by) ==
    {KeyOf(rows[i], by) : i \in {i \in 1..Len(rows) : ~HasNullKey(rows[i], by)}}

\* The group keys in sorted order (sort=True, the default).
RECURSIVE SortKeys(_, _)
SortKeys(by, keys) ==
    IF keys = {} THEN <<>>
    ELSE LET first == CHOOSE k \in keys : \A o \in keys \ {k} : KeyLess(by, k, o)
         IN  <<first>> \o SortKeys(by, keys \ {first})

\* One row of a summary table: the key columns and the metric.
TableRow(by, key, name, n) ==
    [c \in {by[j] : j \in 1..Len(by)} \cup {name} |->
        IF c = name THEN n ELSE key[CHOOSE j \in 1..Len(by) : by[j] = c]]

\* groupby(by)[col].count(): the rows of the group whose col is not null.
GroupCount(rows, by, key, col) ==
    Cardinality({i \in 1..Len(rows) : KeyOf(rows[i], by) = key /\ ~IsNull(col, rows[i][col])})

\* groupby(by).size(): the rows of the group.
GroupSize(rows, by, key) ==
    Cardinality({i \in 1..Len(rows) : KeyOf(rows[i], by) = key})

\* df.groupby(by)[col].count().reset_index(), the count named `name`.
GroupByCount(rows, by, col, name) ==
    LET keys == SortKeys(by, GroupKeys(rows, by))
    IN  [g \in 1..Len(keys) |-> TableRow(by, keys[g], name, GroupCount(rows, by, keys[g], col))]

\* df.groupby(by).size().reset_index(name=name).
GroupBySize(rows, by, name) ==
    LET keys == SortKeys(by, GroupKeys(rows, by))
    IN  [g \in 1..Len(keys) |-> TableRow(by, keys[g], name, GroupSize(rows, by, keys[g]))]

\* df[mask]: the rows where the boolean Series mask is True, in order.
RECURSIVE SelectRows(_, _)
SelectRows(rows, mask) ==
    IF rows = <<>> THEN <<>>
    ELSE (IF Head(mask) THEN <<Head(rows)>> ELSE <<>>)
            \o SelectRows(Tail(rows), Tail(mask))

\* a == b for two string cells, as pandas compares: a null equals nothing.
StrEq(a, b) == ~IsNullStr(a) /\ ~IsNullStr(b) /\ a = b

\* IdxMax that takes the last index of the largest value (keep="last").
IdxMaxLast(table, idxs, col) ==
    CHOOSE i \in idxs :
        /\ \A j \in idxs : table[j][col] <= table[i][col]
        /\ \A j \in idxs : table[j][col] = table[i][col] => j <= i

\* Series.idxmax(): the first index, among idxs, of the largest value.
IdxMax(table, idxs, col) ==
    CHOOSE i \in idxs :
        /\ \A j \in idxs : table[j][col] <= table[i][col]
        /\ \A j \in idxs : table[j][col] = table[i][col] => i <= j

RemoveAt(seq, i) == SubSeq(seq, 1, i - 1) \o SubSeq(seq, i + 1, Len(seq))

\* DataFrame.nlargest(n, col), keep="first": the n rows of largest col in
\* descending order, equal values in the order of the table.
RECURSIVE NLargest(_, _, _)
NLargest(table, n, col) ==
    IF n = 0 \/ table = <<>> THEN <<>>
    ELSE LET i == IdxMax(table, 1..Len(table), col)
         IN  <<table[i]>> \o NLargest(RemoveAt(table, i), n - 1, col)

\* DataFrame.sort_values(by=col, ascending=False): the default sort is not
\* stable, so rows of equal col may come out in any order.
SortValuesDescending(table, col) ==
    {t \in {[i \in 1..Len(table) |-> table[p[i]]] : p \in Permutations(1..Len(table))} :
        \A i \in 1..(Len(t) - 1) : t[i][col] >= t[i + 1][col]}

\* Series.unique(): the distinct cells, a null one included.
Unique(rows, col) == {rows[i][col] : i \in 1..Len(rows)}

\* What st.selectbox returns: one of the options, None when there is none;
\* None is written "" here, as it equals no cell either.
SelectBox(options) == IF options = {} THEN {""} ELSE options

----------------------------------------------------------------------------
\* The summary tables behind the charts.

\* plot_best_selling_state, before the final sort: for each state the first
\* (month, category) group of the largest size.
TopSellingPerState(rows) ==
    LET best_selling_state ==
            GroupBySize(rows, <<"seller_state", "purchase_month", "product_category_name">>,
                        "order_count")
        states == SortKeys(<<"seller_state">>, GroupKeys(best_selling_state, <<"seller_state">>))
    IN  [g \in 1..Len(states) |->
            best_selling_state[
                IdxMax(best_selling_state,
                       {i \in 1..Len(best_selling_state) :
                            best_selling_state[i]["seller_state"] = states[g][1]},
                       "order_count")]]

\* plot_best_selling_state: the tables it may chart.
BestSellingState(rows) == SortValuesDescending(TopSellingPerState(rows), "order_count")

\* plot_monthly_sales_by_state: the tables it may chart.
MonthlySalesByState(rows, selected_state) ==
    SortValuesDescending(
        GroupByCount(SelectRows(rows, [i \in 1..Len(rows) |->
                                            StrEq(rows[i]["seller_state"], selected_state)]),
                     <<"purchase_month">>, "order_item_id", "order_item_id"),
        "order_item_id")

\* plot_total_sales_by_state: the tables it may chart.
TotalSalesByState(rows) ==
    SortValuesDescending(
        GroupByCount(rows, <<"seller_state">>, "order_item_id", "total_sales"),
        "total_sales")

\* plot_sales_trends_top_products: the table it charts.
SalesTrends(rows, selected_product) ==
    GroupByCount(SelectRows(rows, [i \in 1..Len(rows) |->
                                        StrEq(rows[i]["product_id"], selected_product)]),
                 <<"purchase_month">>, "order_item_id", "total_sales")

\* The product_id column of a table, as a sequence.
ProductIds(table) == [i \in 1..Len(table) |-> table[i]["product_id"]]

\* get_top_products(df, n).
GetTopProducts(rows, n) ==
    ProductIds(NLargest(GroupByCount(rows, <<"product_id">>, "order_item_id", "total_sales"),
                        n, "total_sales"))

\* plot_monthly_sales: its own top_10_products.
MonthlySalesTopProducts(rows) ==
    ProductIds(NLargest(GroupByCount(rows, <<"product_id", "product_category_name">>,
                                     "order_item_id", "total_sales"),
                        10, "total_sales"))

\* plot_monthly_sales: the table it charts.
MonthlySales(rows) ==
    LET top_10_products == MonthlySalesTopProducts(rows)
    IN  GroupByCount(
            SelectRows(rows, [i \in 1..Len(rows) |->
                                \E j \in 1..Len(top_10_products) :
                                    StrEq(rows[i]["product_id"], top_10_products[j])]),
            <<"purchase_month", "product_id">>, "order_item_id", "total_sales")

----------------------------------------------------------------------------
\* Spec: one run of main.

\* n of get_top_products when main calls it.
DefaultN == 10

\* Series.min() and Series.max() of the Timestamp column: nulls are skipped,
\* and the result is NaT when nothing is left.
Timestamps(df) ==
    {df.rows[i]["order_purchase_timestamp"] : i \in 1..Len(df.rows)} \ {NaT}

ColumnMin(df) ==
    IF Timestamps(df) = {} THEN NaT
    ELSE CHOOSE t \in Timestamps(df) : \A u \in Timestamps(df) : t <= u

ColumnMax(df) ==
    IF Timestamps(df) = {} THEN NaT
    ELSE CHOOSE t \in Timestamps(df) : \A u \in Timestamps(df) : u <= t

\* a >= b and a <= b for Timestamps: False when either is NaT.
TsGe(a, b) == ~IsNaT(a) /\ ~IsNaT(b) /\ a >= b
TsLe(a, b) == ~IsNaT(a) /\ ~IsNaT(b) /\ a <= b

\* FilterByDate with the two tests joined by "or".
FilterByDateEither(df, start, end) ==
    [df EXCEPT !.rows =
        SelectRows(df.rows, [i \in 1..Len(df.rows) |->
            \/ TsGe(df.rows[i]["order_purchase_timestamp"], ToDatetimeDate(start))
            \/ TsLe(df.rows[i]["order_purchase_timestamp"], ToDatetimeDate(end))])]

\* main_data[(ts >= pd.to_datetime(start_date)) & (ts <= pd.to_datetime(end_date))].
FilterByDate(df, start, end) ==
    [df EXCEPT !.rows =
        SelectRows(df.rows, [i \in 1..Len(df.rows) |->
            /\ TsGe(df.rows[i]["order_purchase_timestamp"], ToDatetimeDate(start))
            /\ TsLe(df.rows[i]["order_purchase_timestamp"], ToDatetimeDate(end))])]

Init ==
    /\ pc = "start"
    /\ file \in TimestampFiles
    /\ main_data = EmptyDataFrame
    /\ messages = <<>>
    /\ once = EmptyDataFrame
    /\ Unused

\* main_data = load_data(csv_file_path)
LoadData ==
    /\ pc = "start"
    /\ pc' = "loaded"
    /\ main_data' = LoadedDataFrame(file)
    /\ messages' = messages \o LoadMessages(file)
    /\ UNCHANGED <<file, start_date, end_date, filtered_data, summary, once>>

\* main_data = prepare_data(main_data)
PrepareData ==
    /\ pc = "loaded"
    /\ pc' = "prepared"
    /\ main_data' = PrepareDataFrame(main_data)
    /\ messages' = messages \o PrepareMessages(main_data)
    /\ UNCHANGED <<file, start_date, end_date, filtered_data, summary, once>>

\* The sidebar: main_data['order_purchase_timestamp'] raises KeyError when
\* the column is missing, and the run ends there.  With no valid timestamp
\* the bounds handed to st.date_input are NaT; what the widget does with
\* them is not fixed by this code: the run may end with its exception, or
\* go on with NaT dates.  Otherwise the user picks two days between the
\* bounds; the default is the pair of bounds.
Sidebar ==
    /\ pc = "prepared"
    /\ IF ~HasTimestampColumn(main_data)
       THEN /\ pc' = "crashed"
            /\ UNCHANGED <<start_date, end_date>>
       ELSE LET min_date == DateOf(ColumnMin(main_data))
                max_date == DateOf(ColumnMax(main_data))
            IN  IF IsNaT(min_date)
                THEN /\ pc' \in {"crashed", "ranged"}
                     /\ UNCHANGED <<start_date, end_date>>
                ELSE /\ pc' = "ranged"
                     /\ start_date' \in min_date..max_date
                     /\ end_date' \in min_date..max_date
    /\ UNCHANGED <<file, main_data, messages, filtered_data, summary, once>>

\* filtered_data = main_data[...]
FilterData ==
    /\ pc = "ranged"
    /\ pc' = "filtered"
    /\ filtered_data' = FilterByDate(main_data, start_date, end_date)
    /\ UNCHANGED <<file, main_data, messages, start_date, end_date, summary, once>>

\* summary with one more table.
Charted(chart, table) == (chart :> table) @@ summary

\* plot_best_selling_state(filtered_data)
PlotBestSellingState ==
    /\ pc = "filtered"
    /\ pc' = "best_selling_state"
    /\ \E table \in BestSellingState(filtered_data.rows) :
          summary' = Charted("best_selling_state", table)
    /\ UNCHANGED <<file, main_data, messages, start_date, end_date, filtered_data, once>>

\* plot_review_distribution(filtered_data): the histogram is seaborn's.
PlotReviewDistribution ==
    /\ pc = "best_selling_state"
    /\ pc' = "review_distribution"
    /\ UNCHANGED <<file, main_data, messages, start_date, end_date, filtered_data,
                   summary, once>>

\* with tab_monthly_sales
TabMonthlySales ==
    /\ pc = "review_distribution"
    /\ pc' = "tab_monthly_sales"
    /\ \E selected_state \in SelectBox(Unique(filtered_data.rows, "seller_state")) :
       \E table \in MonthlySalesByState(filtered_data.rows, selected_state) :
          summary' = ("selected_state" :> selected_state) @@ Charted("monthly_sales", table)
    /\ UNCHANGED <<file, main_data, messages, start_date, end_date, filtered_data, once>>

\* with tab_overview
TabOverview ==
    /\ pc = "tab_monthly_sales"
    /\ pc' = "tab_overview"
    /\ \E total \in TotalSalesByState(filtered_data.rows) :
       \E selected_state \in SelectBox(Unique(filtered_data.rows, "seller_state")) :
       \E table \in MonthlySalesByState(filtered_data.rows, selected_state) :
          summary' = ("total_sales_state" :> total) @@
                     ("selected_state_overview" :> selected_state) @@
                     Charted("monthly_sales_overview", table)
    /\ UNCHANGED <<file, main_data, messages, start_date, end_date, filtered_data, once>>

\* The options of a select box over a sequence.
Options(seq) == {seq[i] : i \in 1..Len(seq)}

\* with tab_trends
TabTrends ==
    /\ pc = "tab_overview"
    /\ pc' = "done"
    /\ LET top_products == GetTopProducts(filtered_data.rows, DefaultN)
       IN  \E selected_product \in SelectBox(Options(top_products)) :
              summary' = ("top_products" :> top_products) @@
                         ("selected_product" :> selected_product) @@
                         Charted("product_sales_trends",
                                 SalesTrends(filtered_data.rows, selected_product))
    /\ UNCHANGED <<file, main_data, messages, start_date, end_date, filtered_data, once>>

Next ==
    \/ LoadData
    \/ PrepareData
    \/ Sidebar
    \/ FilterData
    \/ PlotBestSellingState
    \/ PlotReviewDistribution
    \/ TabMonthlySales
    \/ TabOverview
    \/ TabTrends

Spec == Init /\ [][Next]_vars

----------------------------------------------------------------------------
\* SpecPrepare: prepare_data applied once and then once more to a loaded
\* DataFrame.

InitPrepare ==
    /\ pc = "input"
    /\ file \in {f \in TimestampFiles : f.status = "ok"}
    /\ main_data = file.data
    /\ messages = <<>>
    /\ once = EmptyDataFrame
    /\ Unused

PrepareOnce ==
    /\ pc = "input"
    /\ pc' = "once"
    /\ main_data' = PrepareDataFrame(main_data)
    /\ messages' = messages \o PrepareMessages(main_data)
    /\ once' = main_data'
    /\ UNCHANGED <<file, start_date, end_date, filtered_data, summary>>

PrepareAgain ==
    /\ pc = "once"
    /\ pc' = "twice"
    /\ main_data' = PrepareDataFrame(main_data)
    /\ messages' = messages \o PrepareMessages(main_data)
    /\ UNCHANGED <<file, start_date, end_date, filtered_data, summary, once>>

NextPrepare == PrepareOnce \/ PrepareAgain

SpecPrepare == InitPrepare /\ [][NextPrepare]_vars

\* The rows of the loaded file, as read.
RawRows == file.data.rows

\* The messages of one level shown so far.
Shown(level) == {i \in 1..Len(messages) : messages[i].level = level}

----------------------------------------------------------------------------
\* SpecAgg: the aggregation functions, each applied to a filtered dataset.

\* Midnight timestamps of January and of February: rows the filter keeps
\* under the default range.
JanuaryText == <<2018, 1, 31, 0>>
FebruaryText == <<2018, 2, 1, 0>>

\* Lines that differ in state, month and category.
StateLines ==
    {Row(mc[1], 1, "p01", mc[2], state) :
        mc \in {<<JanuaryText, "c1">>, <<JanuaryText, "c2">>, <<FebruaryText, "c1">>,
                <<JanuaryText, "">>},
        state \in {"", "RJ", "SP"}}

\* Lines that differ in state and in whether the order item id is there.
ItemLines ==
    {Row(JanuaryText, item, "p01", "c1", state) :
        item \in {NaN, 1}, state \in {"", "RJ", "SP"}}

\* Lines that differ in product, and in whether item id and category are
\* there.
ProductLines ==
    {Row(JanuaryText, ic[1], product, ic[2], "SP") :
        ic \in {<<1, "c1">>, <<NaN, "c1">>, <<1, "">>},
        product \in {"", "p01", "p02", "p03"}}

\* Ten lines, one for each of ten products (for k > 0 the first line is
\* another sale of the k-th product instead), and possibly an eleventh line
\* of no product.
TenProductLines ==
    {[i \in 1..(10 + extra) |->
        Row(JanuaryText, 1,
            IF i = 11 THEN "" ELSE IF i = 1 /\ k > 0 THEN Lexicon[4 + k] ELSE Lexicon[4 + i],
            "c1", "SP")] :
        k \in 0..10, extra \in 0..1}

AggFiles ==
    {[status |-> "ok", data |-> ReadCsv(Columns, lines)] :
        lines \in SeqsUpTo(StateLines, MaxAggRows) \cup SeqsUpTo(ItemLines, MaxAggRows)
                  \cup SeqsUpTo(ProductLines, MaxAggRows) \cup TenProductLines}

InitAgg ==
    /\ pc = "input"
    /\ file \in AggFiles
    /\ main_data = PrepareDataFrame(file.data)
    /\ filtered_data = main_data
    /\ messages = <<>>
    /\ start_date = DateOf(ColumnMin(main_data))
    /\ end_date = DateOf(ColumnMax(main_data))
    /\ summary = <<>>
    /\ once = EmptyDataFrame

AggUnchanged ==
    UNCHANGED <<file, main_data, messages, start_date, end_date, filtered_data, once>>

\* plot_best_selling_state(df)
AggBestSellingState ==
    /\ pc = "input"
    /\ pc' = "best_selling_state"
    /\ \E table \in BestSellingState(filtered_data.rows) :
          summary' = Charted("best_selling_state", table)
    /\ AggUnchanged

\* plot_total_sales_by_state(df)
AggTotalSalesByState ==
    /\ pc = "input"
    /\ pc' = "total_sales_state"
    /\ \E table \in TotalSalesByState(filtered_data.rows) :
          summary' = Charted("total_sales_state", table)
    /\ AggUnchanged

\* get_top_products(df, n)
AggGetTopProducts ==
    /\ pc = "input"
    /\ pc' = "top_products"
    /\ \E n \in (1..MaxN) \cup {DefaultN} :
          summary' = ("n" :> n) @@ Charted("top_products", GetTopProducts(filtered_data.rows, n))
    /\ AggUnchanged

\* plot_monthly_sales(df)
AggMonthlySales ==
    /\ pc = "input"
    /\ pc' = "monthly_trend_products"
    /\ summary' = ("top_10_products" :> MonthlySalesTopProducts(filtered_data.rows)) @@
                  Charted("monthly_trend_products", MonthlySales(filtered_data.rows))
    /\ AggUnchanged

NextAgg ==
    \/ AggBestSellingState
    \/ AggTotalSalesByState
    \/ AggGetTopProducts
    \/ AggMonthlySales

SpecAgg == InitAgg /\ [][NextAgg]_vars

----------------------------------------------------------------------------
\* Claims about prepare_data (SpecPrepare).

\* The date texts among the timestamp cells, listed: the calendar month of
\* <<Y, M, D, H>> is M.
DateTexts == {<<2018, 1, 31, 13>>, <<2018, 2, 1, 0>>, <<2018, 2, 1, 8>>}

\* The rows of the loaded file whose timestamp cell is no date text.
BadRows == {i \in 1..Len(RawRows) : RawRows[i]["order_purchase_timestamp"] \notin DateTexts}

\* C7: after prepare_data, purchase_month is null for exactly the rows whose
\* timestamp did not parse, every other row has its calendar month in 1..12,
\* and one warning is shown if some timestamp is null and none otherwise.
C7_PrepareMonthsAndWarning ==
    (pc = "once" /\ HasTimestampColumn(file.data)) =>
        /\ Len(main_data.rows) = Len(RawRows)
        /\ \A i \in 1..Len(RawRows) :
              LET text == RawRows[i]["order_purchase_timestamp"]
                  month == main_data.rows[i]["purchase_month"]
              IN  IF i \in BadRows
                  THEN IsNaN(month)
                  ELSE month = text[2] /\ month \in 1..12
        /\ Cardinality(Shown("warning")) = (IF BadRows = {} THEN 0 ELSE 1)
        /\ Shown("error") = {}

\* C7's case: two rows failed to parse, another row is valid, and the one
\* warning is shown.
C7_Witness ==
    /\ pc = "once"
    /\ HasTimestampColumn(file.data)
    /\ Cardinality(BadRows) = 2
    /\ Len(RawRows) = 3
    /\ Cardinality(Shown("warning")) = 1

\* C8: prepare_data applied twice leaves every row with the same
\* purchase_month and the same order_purchase_timestamp as applied once.
C8_PrepareIdempotent ==
    pc = "twice" =>
        /\ main_data.columns = once.columns
        /\ Len(main_data.rows) = Len(once.rows)
        /\ \A i \in 1..Len(once.rows) :
              \A c \in {"order_purchase_timestamp", "purchase_month"} \cap once.columns :
                  main_data.rows[i][c] = once.rows[i][c]

\* C8's case: prepare_data has run twice on a dataset with a valid and an
\* invalid timestamp.
C8_Witness ==
    /\ pc = "twice"
    /\ HasTimestampColumn(file.data)
    /\ BadRows # {}
    /\ \E i \in 1..Len(once.rows) : once.rows[i]["purchase_month"] = 2

----------------------------------------------------------------------------
\* Claims about the date-range filter and the run of main (Spec).

\* The run is past the filter.
Filtered ==
    pc \in {"filtered", "best_selling_state", "review_distribution", "tab_monthly_sales",
            "tab_overview", "done"}

\* The calendar date of a row's purchase lies in [start_date, end_date].
InRange(row) ==
    /\ ~IsNaT(row["order_purchase_timestamp"])
    /\ start_date <= DateOf(row["order_purchase_timestamp"])
    /\ DateOf(row["order_purchase_timestamp"]) <= end_date

\* C1: the filter keeps exactly the rows whose purchase date d satisfies
\* start_date <= d <= end_date, whatever their time of day.
C1_FilterIsClosedOnDates ==
    Filtered => filtered_data.rows = SelectSeq(main_data.rows, InRange)

\* C2: with the default range, from the date of the smallest timestamp to the
\* date of the largest, the filter keeps every row of the prepared dataset
\* (stated for the datasets that have a timestamp, so a default range).
C2_FullRangeKeepsAllRows ==
    (/\ Filtered
     /\ ~IsNaT(start_date)
     /\ start_date = DateOf(ColumnMin(main_data))
     /\ end_date = DateOf(ColumnMax(main_data)))
        => Len(filtered_data.rows) = Len(main_data.rows)

\* The load failed, or the file has no order_purchase_timestamp column.
InputFailure == file.status # "ok" \/ ~HasTimestampColumn(file.data)

\* C3: after a failed load or with the timestamp column missing, the run
\* does not end in an unhandled exception.
C3_InputFailureDoesNotCrash ==
    InputFailure => pc # "crashed"

\* The charts whose summary table the model computes.
TableCharts ==
    {"best_selling_state", "monthly_sales", "total_sales_state", "monthly_sales_overview",
     "top_products", "product_sales_trends"}

\* C6: with start_date > end_date the filter returns no row and raises
\* nothing, and every summary computed from the result is an empty table.
C6_ReversedRangeIsEmpty ==
    (start_date > end_date /\ pc \notin {"start", "loaded", "prepared", "ranged"}) =>
        /\ Filtered
        /\ filtered_data.rows = <<>>
        /\ filtered_data.columns = main_data.columns
        /\ \A chart \in TableCharts \cap DOMAIN summary : summary[chart] = <<>>
        /\ pc = "done" => TableCharts \subseteq DOMAIN summary

\* C6's case: a run over three rows with valid timestamps, filtered by a
\* reversed range, has drawn every chart.
C6_Witness ==
    /\ pc = "done"
    /\ start_date > end_date
    /\ Len(main_data.rows) = 3
    /\ ~AnyNaT(main_data)

----------------------------------------------------------------------------
\* Claims about the aggregation functions (SpecAgg).

\* The rows handed to the aggregation function.
Input == filtered_data.rows

RECURSIVE SumOf(_, _)
SumOf(table, col) ==
    IF table = <<>> THEN 0 ELSE Head(table)[col] + SumOf(Tail(table), col)

\* The seller states of the input.
StatesOfInput ==
    {Input[i]["seller_state"] : i \in 1..Len(Input)} \ {""}

\* C4: the total-sales-per-state table has one row per seller state, and its
\* total_sales add up to the number of rows of the input.
C4_TotalsAddUpToRowCount ==
    pc = "total_sales_state" =>
        LET table == summary["total_sales_state"]
        IN  /\ {table[i]["seller_state"] : i \in 1..Len(table)} = StatesOfInput
            /\ Len(table) = Cardinality(StatesOfInput)
            /\ SumOf(table, "total_sales") = Len(Input)

\* The products of the input, and the order-item rows of one of them.
ProductsOfInput ==
    {Input[i]["product_id"] : i \in 1..Len(Input)} \ {""}

SalesOf(product) ==
    Cardinality({i \in 1..Len(Input) :
        Input[i]["product_id"] = product /\ Input[i]["order_item_id"] # NaN})

\* get_top_products returned min(n, number of products) distinct products in
\* descending order of their count, no product left out has a higher count
\* than one returned, and among equal counts the products that come first in
\* the grouped input (sorted by product id) are returned, and returned first.
TopProductsSelected ==
    LET top == summary["top_products"]
        n == summary["n"]
        count == Cardinality(ProductsOfInput)
        left_out == ProductsOfInput \ Options(top)
    IN  /\ Len(top) = IF n <= count THEN n ELSE count
        /\ Options(top) \subseteq ProductsOfInput
        /\ \A i, j \in 1..Len(top) : i < j =>
              /\ top[i] # top[j]
              /\ SalesOf(top[i]) >= SalesOf(top[j])
              /\ SalesOf(top[i]) = SalesOf(top[j]) => StrRank(top[i]) < StrRank(top[j])
        /\ \A q \in left_out : \A i \in 1..Len(top) :
              /\ SalesOf(q) <= SalesOf(top[i])
              /\ SalesOf(q) = SalesOf(top[i]) => StrRank(top[i]) < StrRank(q)

C9_MonthlySalesUsesTopProducts ==
    pc = "monthly_trend_products" =>
        LET top == Options(GetTopProducts(Input, DefaultN))
            table == summary["monthly_trend_products"]
        IN  /\ Options(summary["top_10_products"]) = top
            /\ {<<table[i]["purchase_month"], table[i]["product_id"]>> : i \in 1..Len(table)}
                 = {<<Input[i]["purchase_month"], Input[i]["product_id"]>> :
                        i \in {i \in 1..Len(Input) : Input[i]["product_id"] \in top}}

\* The (month, category) combinations of a state in the input, and the rows
\* of one of them.
RowsOf(state, month, category) ==
    Cardinality({i \in 1..Len(Input) :
        /\ Input[i]["seller_state"] = state
        /\ Input[i]["purchase_month"] = month
        /\ Input[i]["product_category_name"] = category})

\* C10: the best-selling-state table has exactly one row for each seller
\* state of the input; the row is a (month, category) combination of the
\* state with the largest row count, the first such in group order; and the
\* rows are in descending order of order_count.
C10_BestSellingState ==
    pc = "best_selling_state" =>
        LET table == summary["best_selling_state"]
        IN  /\ {table[i]["seller_state"] : i \in 1..Len(table)} = StatesOfInput
            /\ Len(table) = Cardinality(StatesOfInput)
            /\ \A i \in 1..Len(table) :
                  LET state == table[i]["seller_state"]
                      month == table[i]["purchase_month"]
                      category == table[i]["product_category_name"]
                  IN  /\ table[i]["order_count"] = RowsOf(state, month, category)
                      /\ table[i]["order_count"] > 0
                      /\ \A j \in 1..Len(Input) :
                            Input[j]["seller_state"] = state =>
                                LET m == Input[j]["purchase_month"]
                                    c == Input[j]["product_category_name"]
                                    rows == RowsOf(state, m, c)
                                IN  /\ rows <= table[i]["order_count"]
                                    /\ (rows = table[i]["order_count"]
                                            /\ <<m, c>> # <<month, category>>) =>
                                          KeyLess(<<"purchase_month", "product_category_name">>,
                                                  <<month, category>>, <<m, c>>)
            /\ \A i \in 1..(Len(table) - 1) :
                  table[i]["order_count"] >= table[i + 1]["order_count"]

====
